---- MODULE Spec2Model ----
(***************************************************************************)
(* A model of the bdlaws scraper: run_scrape (pipeline.py) as a state      *)
(* machine whose steps are its blocking fetches, and the pure extractors   *)
(* of parse.py / utils.py as operators.                                    *)
(*                                                                         *)
(* Text is a sequence of one-character strings, so that lower-casing,      *)
(* substring search, replacement and ordering are computed, not assumed.   *)
(* An optional value (Python's None) is <<>>; a present value x is <<x>>.  *)
(***************************************************************************)
EXTENDS Integers, Sequences, FiniteSets, TLC

(***************************************************************************)
(* Text primitives (Python str semantics)                                  *)
(***************************************************************************)

None == <<>>
Some(x) == <<x>>
IsNone(o) == o = <<>>
Val(o) == o[1]

\* Python truthiness of an Optional[str]: None and "" are falsy.
Truthy(o) == o # None /\ Val(o) # <<>>

\* value or default (Python `x or d` on Optional[str]).
OrElse(o, d) == IF Truthy(o) THEN Val(o) ELSE d

Upper == <<"A", "B", "C", "D", "E", "F", "G", "H", "I", "J", "K", "L", "M",
           "N", "O", "P", "Q", "R", "S", "T", "U", "V", "W", "X", "Y", "Z">>
Lowers == <<"a", "b", "c", "d", "e", "f", "g", "h", "i", "j", "k", "l", "m",
            "n", "o", "p", "q", "r", "s", "t", "u", "v", "w", "x", "y", "z">>
Digits == <<"0", "1", "2", "3", "4", "5", "6", "7", "8", "9">>

IndexIn(c, seq) == CHOOSE i \in 1..Len(seq) : seq[i] = c

UpperSet == {Upper[k] : k \in 1..Len(Upper)}
DigitSet == {Digits[k] : k \in 1..Len(Digits)}
LowerSet == {Lowers[k] : k \in 1..Len(Lowers)}
LowerOf == [c \in UpperSet |-> Lowers[IndexIn(c, Upper)]]

\* str.lower() on one character.
LowerChar(c) == IF c \in UpperSet THEN LowerOf[c] ELSE c

\* str.lower()
Lower(s) == [i \in 1..Len(s) |-> LowerChar(s[i])]

\* `sub in s`
Contains(s, sub) ==
    \E i \in 1..(Len(s) - Len(sub) + 1) : SubSeq(s, i, i + Len(sub) - 1) = sub

StartsAt(s, sub, i) ==
    /\ i + Len(sub) - 1 <= Len(s)
    /\ SubSeq(s, i, i + Len(sub) - 1) = sub

EndsWith(s, sub) ==
    Len(sub) <= Len(s) /\ SubSeq(s, Len(s) - Len(sub) + 1, Len(s)) = sub

\* The code point of a character, for the ordering sorted() uses.
CodeOf ==
    [c \in DigitSet \cup UpperSet \cup LowerSet \cup {" ", "(", ")", ",", "-", ".", "/", ":", "?", "_"} |->
        IF c \in DigitSet THEN 47 + IndexIn(c, Digits)
        ELSE IF c \in UpperSet THEN 64 + IndexIn(c, Upper)
        ELSE IF c \in LowerSet THEN 96 + IndexIn(c, Lowers)
        ELSE CASE c = " " -> 32
               [] c = "(" -> 40
               [] c = ")" -> 41
               [] c = "," -> 44
               [] c = "-" -> 45
               [] c = "." -> 46
               [] c = "/" -> 47
               [] c = ":" -> 58
               [] c = "?" -> 63
               [] c = "_" -> 95]

\* Every other character of the model is Bengali (U+0980 and above).
CharCode(c) == IF c \in DOMAIN CodeOf THEN CodeOf[c] ELSE 2500

\* s < t in Python's string order.
RECURSIVE StrLess(_, _)
StrLess(s, t) ==
    IF t = <<>> THEN FALSE
    ELSE IF s = <<>> THEN TRUE
    ELSE IF CharCode(Head(s)) # CharCode(Head(t))
         THEN CharCode(Head(s)) < CharCode(Head(t))
    ELSE StrLess(Tail(s), Tail(t))

\* sorted(set(links)): the strings of a set in ascending order.
RECURSIVE SortedList(_)
SortedList(S) ==
    IF S = {} THEN <<>>
    ELSE LET m == CHOOSE x \in S : \A y \in S \ {x} : StrLess(x, y)
         IN  <<m>> \o SortedList(S \ {m})

\* str.replace(term, rep): leftmost, non-overlapping occurrences.
RECURSIVE Replace(_, _, _)
Replace(s, term, rep) ==
    IF s = <<>> \/ term = <<>> THEN s
    ELSE IF StartsAt(s, term, 1)
         THEN rep \o Replace(SubSeq(s, Len(term) + 1, Len(s)), term, rep)
    ELSE <<Head(s)>> \o Replace(Tail(s), term, rep)

\* re.sub(r"\s+", " ", s).strip()
RECURSIVE CollapseWs(_)
CollapseWs(s) ==
    IF s = <<>> THEN <<>>
    ELSE IF Head(s) = " "
         THEN LET rest == CollapseWs(Tail(s))
              IN  IF rest = <<>> \/ Head(rest) = " " THEN rest ELSE <<" ">> \o rest
    ELSE <<Head(s)>> \o CollapseWs(Tail(s))

Strip(s) == IF s # <<>> /\ Head(s) = " " THEN Tail(s) ELSE s

CollapseAndStrip(s) == Strip(CollapseWs(s))

(***************************************************************************)
(* The words, texts and hrefs of the model                                 *)
(***************************************************************************)

\* Bengali code points are named tokens: bn_sa is U+09B8, and so on.
BnSongshodhon == <<"bn_sa", "bn_anusvara", "bn_sha", "bn_o", "bn_dha", "bn_na">>
BnSongbad == <<"bn_sa", "bn_anusvara", "bn_ba", "bn_aa", "bn_da">>
BnSongshodhoni == BnSongshodhon \o <<"bn_ii">>
BnDwitiyo == <<"bn_da", "bn_virama", "bn_ba", "bn_i", "bn_ta", "bn_ii", "bn_ya", "bn_nukta">>
BnProthom == <<"bn_pa", "bn_virama", "bn_ra", "bn_tha", "bn_ma">>

W_amend == <<"a", "m", "e", "n", "d">>
W_amendment == W_amend \o <<"m", "e", "n", "t">>
W_ordinance == <<"o", "r", "d", "i", "n", "a", "n", "c", "e">>
W_act == <<"a", "c", "t">>
W_order == <<"o", "r", "d", "e", "r">>
W_second == <<"s", "e", "c", "o", "n", "d">>
W_first == <<"f", "i", "r", "s", "t">>
Sp == <<" ">>

BnOrdinance == <<"bn_a", "bn_dha", "bn_virama", "bn_ya", "bn_aa", "bn_da", "bn_e", "bn_sha">>

BnDigits == <<"bn_0", "bn_1", "bn_2", "bn_3", "bn_4", "bn_5", "bn_6", "bn_7", "bn_8", "bn_9">>
BnDigitSet == {BnDigits[k] : k \in 1..Len(BnDigits)}
AsciiOf == [c \in BnDigitSet |-> Digits[IndexIn(c, BnDigits)]]

DotHtml == <<".", "h", "t", "m", "l">>

Unknown == <<"u", "n", "k", "n", "o", "w", "n">>

\* config.base_url (already without a trailing slash, config.py:35).
BaseUrl == <<"h", "t", "t", "p", ":", "/", "/", "b">>

ActHref(n) == <<"/", "a", "c", "t", "-">> \o n \o DotHtml
H_act1 == ActHref(<<"1">>)
H_act2 == ActHref(<<"2">>)
H_law3 == <<"/", "l", "a", "w", "-", "3">> \o DotHtml
H_constitution == ActHref(<<"9", "5", "7">>)
H_act9570 == ActHref(<<"9", "5", "7", "0">>)
H_details7 == <<"/", "a", "c", "t", "-", "d", "e", "t", "a", "i", "l", "s", "-", "7">> \o DotHtml
H_pdf == <<"/", "g", ".", "p", "d", "f">>

T_plain == <<"X", " ", "O", "r", "d", "i", "n", "a", "n", "c", "e">>
T_plain_dot == <<"x", " ", "o", "r", "d", "i", "n", "a", "n", "c", "e", ".">>
T_amendment == <<"X", " ", "(", "A", "m", "e", "n", "d", "m", "e", "n", "t", ")", " ",
                 "O", "r", "d", "i", "n", "a", "n", "c", "e">>
T_to_amend == <<"A", "m", "e", "n", "d", " ", "X">>
T_number == <<"1", "bn_2">>
T_unknown == <<"U", "n", "k", "n", "o", "w", "n", " ", "t", "i", "t", "l", "e">>

Y2025 == <<"2", "0", "2", "5">>
Y2024bn == <<"bn_2", "bn_0", "bn_2", "bn_4">>
Y1999 == <<"1", "9", "9", "9">>

\* The finite universes over which the text functions are tabulated once
\* (a text outside them is computed on the spot).
KnownTexts == {T_plain, T_plain_dot, T_amendment, T_to_amend, T_number, T_unknown, <<>>}
KnownHrefs == {H_act1, H_act2, H_law3, H_constitution, H_act9570, H_details7, H_pdf}

(***************************************************************************)
(* utils.py                                                                *)
(***************************************************************************)

\* The characters normalize_title replaces by a space.
Punct == {"(", ")", "[", "]", "{", "}", ".", ",", ";", ":", "!", "?", "/"}

normalize_title_of(text) ==
    CollapseAndStrip([i \in 1..Len(text) |->
        IF LowerChar(text[i]) \in Punct THEN " " ELSE LowerChar(text[i])])

normalize_title_memo == [t \in KnownTexts |-> normalize_title_of(t)]

normalize_title(text) ==
    IF text \in KnownTexts THEN normalize_title_memo[text] ELSE normalize_title_of(text)

\* The vocabulary of strip_amendment_terms, in the order the code applies it.
AmendmentTerms ==
    << W_amendment,
       W_amend \o <<"i", "n", "g">>,
       W_amend \o <<"e", "d">>,
       W_amendment \o <<"s">>,
       W_amend \o <<"a", "t", "o", "r", "y">>,
       W_amendment \o Sp \o W_ordinance,
       W_amendment \o Sp \o W_act,
       W_amendment \o Sp \o W_order,
       W_second \o Sp \o W_amendment,
       W_first \o Sp \o W_amendment,
       BnSongshodhon,
       BnSongbad,
       BnSongshodhoni,
       BnDwitiyo \o Sp \o BnSongshodhon,
       BnProthom \o Sp \o BnSongshodhon >>

RECURSIVE StripTermsFrom(_, _)
StripTermsFrom(text, k) ==
    IF k > Len(AmendmentTerms) THEN text
    ELSE StripTermsFrom(Replace(text, AmendmentTerms[k], Sp), k + 1)

strip_amendment_terms_of(text) == CollapseAndStrip(StripTermsFrom(text, 1))

KnownNormalized == {normalize_title_of(t) : t \in KnownTexts}
strip_amendment_terms_memo == [t \in KnownNormalized |-> strip_amendment_terms_of(t)]

strip_amendment_terms(text) ==
    IF text \in KnownNormalized THEN strip_amendment_terms_memo[text]
    ELSE strip_amendment_terms_of(text)

\* urljoin(base.rstrip("/") + "/", href) for the three shapes of href the
\* model uses: absolute, root-relative and relative.
normalize_url(base, href) ==
    IF Contains(href, <<":", "/", "/">>) THEN href
    ELSE IF href # <<>> /\ Head(href) = "/" THEN base \o href
    ELSE base \o <<"/">> \o href

KnownUrls == {normalize_url(BaseUrl, h) : h \in KnownHrefs}

(***************************************************************************)
(* The regular expressions of parse.py and pipeline.py                     *)
(***************************************************************************)

\* The length of the run of digits of s that starts at position i.
RECURSIVE DigitRun(_, _)
DigitRun(s, i) ==
    IF i <= Len(s) /\ s[i] \in DigitSet THEN 1 + DigitRun(s, i + 1) ELSE 0

\* prefix \d+ \.html matches s at position i.
NumberedHtmlAt(s, prefix, i) ==
    /\ StartsAt(s, prefix, i)
    /\ DigitRun(s, i + Len(prefix)) >= 1
    /\ StartsAt(s, DotHtml, i + Len(prefix) + DigitRun(s, i + Len(prefix)))

\* re.search(ACT_LINK_PATTERN, href), ACT_LINK_PATTERN = /(act|law)-\d+\.html
ACT_LINK_PATTERN_of(href) ==
    \E i \in 1..Len(href) :
        \/ NumberedHtmlAt(href, <<"/", "a", "c", "t", "-">>, i)
        \/ NumberedHtmlAt(href, <<"/", "l", "a", "w", "-">>, i)

ACT_LINK_PATTERN_memo == [h \in KnownHrefs |-> ACT_LINK_PATTERN_of(h)]

ACT_LINK_PATTERN(href) ==
    IF href \in KnownHrefs THEN ACT_LINK_PATTERN_memo[href] ELSE ACT_LINK_PATTERN_of(href)

_extract_act_id_from_url_of(url) ==
    LET prefix == <<"a", "c", "t", "-">>
        hits == {i \in 1..Len(url) : NumberedHtmlAt(url, prefix, i)}
    IN  IF hits = {} THEN Unknown
        ELSE LET i == CHOOSE j \in hits : \A k \in hits : j <= k
             IN  SubSeq(url, i + 4, i + 3 + DigitRun(url, i + 4))

_extract_act_id_from_url_memo == [u \in KnownUrls |-> _extract_act_id_from_url_of(u)]

_extract_act_id_from_url(url) ==
    IF url \in KnownUrls THEN _extract_act_id_from_url_memo[url]
    ELSE _extract_act_id_from_url_of(url)

_is_constitution_link_of(url) ==
    \/ Contains(url, <<"/", "a", "c", "t", "-", "9", "5", "7">>)
    \/ Contains(url, <<"a", "c", "t", "-", "9", "5", "7">> \o DotHtml)

_is_constitution_link_memo == [u \in KnownUrls |-> _is_constitution_link_of(u)]

_is_constitution_link(url) ==
    IF url \in KnownUrls THEN _is_constitution_link_memo[url]
    ELSE _is_constitution_link_of(url)

\* extract_act_links: the anchors' hrefs that match, normalized, as a sorted
\* list without duplicates.
extract_act_links(hrefs, base) ==
    SortedList({normalize_url(base, hrefs[i]) :
                   i \in {j \in 1..Len(hrefs) : ACT_LINK_PATTERN(hrefs[j])}})


\* The characters safe_filename keeps: [a-zA-Z0-9_-].
FileChar(c) == c \in DigitSet \/ c \in UpperSet \/ c \in LowerSet \/ c \in {"_", "-"}

RECURSIVE DashRuns(_)
DashRuns(s) ==
    IF s = <<>> THEN <<>>
    ELSE IF FileChar(Head(s)) THEN <<Head(s)>> \o DashRuns(Tail(s))
    ELSE IF Len(s) > 1 /\ ~FileChar(s[2]) THEN DashRuns(Tail(s))
    ELSE <<"-">> \o DashRuns(Tail(s))

RECURSIVE StripDashes(_)
StripDashes(s) ==
    IF s # <<>> /\ Head(s) = "-" THEN StripDashes(Tail(s))
    ELSE IF s # <<>> /\ s[Len(s)] = "-" THEN StripDashes(SubSeq(s, 1, Len(s) - 1))
    ELSE s

\* safe_filename's max_len.
SafeFilenameMaxLen == 120

safe_filename_of(text) ==
    LET cleaned == StripDashes(DashRuns(text))
        named == IF cleaned = <<>> THEN <<"i", "t", "e", "m">> ELSE cleaned
    IN  SubSeq(named, 1, IF Len(named) < SafeFilenameMaxLen THEN Len(named)
                         ELSE SafeFilenameMaxLen)

safe_filename_memo == [u \in KnownUrls |-> safe_filename_of(u)]

safe_filename(text) ==
    IF text \in KnownUrls THEN safe_filename_memo[text] ELSE safe_filename_of(text)

(***************************************************************************)
(* Dates                                                                   *)
(***************************************************************************)

Date(y, m, d) == [y |-> y, m |-> m, d |-> d]

\* a <= b on datetime.date
DateLE(a, b) ==
    \/ a.y < b.y
    \/ a.y = b.y /\ a.m < b.m
    \/ a.y = b.y /\ a.m = b.m /\ a.d <= b.d

\* parse_date_from_text on the ISO text of a date (YYYY-MM-DD): dateutil,
\* asked for dayfirst, reads a year-first triple as year-day-month whenever
\* the last number can be a month.
parse_date_from_iso(dt) ==
    IF dt.d <= 12 THEN Date(dt.y, dt.d, dt.m) ELSE dt

\* _parse_iso_date(parsed.get("enactment_date"))
_parse_iso_date(value) ==
    IF IsNone(value) THEN None ELSE Some(parse_date_from_iso(Val(value)))

_within_window(value, start, end) ==
    IF IsNone(value) THEN FALSE
    ELSE DateLE(start, Val(value)) /\ DateLE(Val(value), end)

\* The test without .lower().
_is_ordinance_case_sensitive(record) ==
    IF IsNone(record.document_type) THEN FALSE
    ELSE Contains(Val(record.document_type), W_ordinance)

_is_ordinance(record) ==
    IF IsNone(record.document_type) THEN FALSE
    ELSE Contains(Lower(Val(record.document_type)), W_ordinance)

(***************************************************************************)
(* pipeline.py: classification and resolution                              *)
(***************************************************************************)

\* The classification of the raw title, without normalize_title.
_is_amendment_title_raw(title) ==
    \/ Contains(title, W_amend)
    \/ Contains(title, BnSongshodhon)

_is_amendment_title(title) ==
    \/ Contains(normalize_title(title), W_amend)
    \/ Contains(title, BnSongshodhon)

\* The lookup is a function from normalized titles to URLs.
RECURSIVE BuildLookupFrom(_, _, _)
BuildLookupFrom(entries, k, lookup) ==
    IF k > Len(entries) THEN lookup
    ELSE LET url == entries[k][1]
             text == entries[k][2]
             normalized == normalize_title(text)
         IN  IF text = <<>> THEN BuildLookupFrom(entries, k + 1, lookup)
             ELSE IF normalized \notin DOMAIN lookup
                  THEN BuildLookupFrom(entries, k + 1, lookup @@ (normalized :> url))
             ELSE BuildLookupFrom(entries, k + 1, lookup)

\* A lookup in which a later entry replaces an earlier one of the same title.
_build_title_lookup_last_wins(entries) ==
    LET titled == {k \in 1..Len(entries) : entries[k][2] # <<>>}
        last(key) == CHOOSE k \in titled :
                        /\ normalize_title(entries[k][2]) = key
                        /\ \A j \in titled : normalize_title(entries[j][2]) = key => j <= k
    IN  [key \in {normalize_title(entries[k][2]) : k \in titled} |-> entries[last(key)][1]]

_build_title_lookup(entries) == BuildLookupFrom(entries, 1, <<>>)

\* A lookup that settles for any entry of the index when the key is missing.
_find_original_link_any(title, lookup) ==
    LET stripped == strip_amendment_terms(normalize_title(title))
    IN  IF stripped \in DOMAIN lookup THEN Some(lookup[stripped])
        ELSE IF DOMAIN lookup # {} THEN Some(lookup[CHOOSE key \in DOMAIN lookup : TRUE])
        ELSE None

_find_original_link(title, lookup) ==
    LET stripped == strip_amendment_terms(normalize_title(title))
    IN  IF stripped \in DOMAIN lookup THEN Some(lookup[stripped]) ELSE None

\* Lines 83-87 of run_scrape: the links of the page that may be the original.
candidate_links(hrefs, url, base) ==
    SelectSeq(extract_act_links(hrefs, base),
              LAMBDA link : link # url /\ ~_is_constitution_link(link))

\* Lines 88-90 of run_scrape: the first candidate, else the Title Lookup.
resolve_original(title, hrefs, url, base, lookup) ==
    LET candidates == candidate_links(hrefs, url, base)
        first == IF candidates # <<>> THEN Some(candidates[1]) ELSE None
    IN  IF ~Truthy(first) THEN _find_original_link(title, lookup) ELSE first

\* The resolution without its guard: every document is resolved.
original_of_ungated(is_amendment, title, hrefs, url, base, lookup) ==
    resolve_original(title, hrefs, url, base, lookup)

\* Lines 74 and 82-90 of run_scrape: original stays None unless the document
\* is an amendment.
original_of(is_amendment, title, hrefs, url, base, lookup) ==
    IF is_amendment THEN resolve_original(title, hrefs, url, base, lookup) ELSE None


(***************************************************************************)
(* parse.py: the index parsers                                             *)
(***************************************************************************)

normalize_bengali_digits(text) ==
    [i \in 1..Len(text) |->
        IF text[i] \in BnDigitSet THEN AsciiOf[text[i]] ELSE text[i]]

RemoveWs(text) == SelectSeq(text, LAMBDA c : c # " ")

\* A digit of another script (U+0663, ARABIC-INDIC DIGIT THREE).
OtherDigitSet == {"ar_3"}

\* str.isdigit() on the characters of the model: the ASCII digits and the
\* digits of any other script (the Bengali ones, were they not normalized
\* first).
IsDigitStr(text) ==
    text # <<>> /\ \A k \in 1..Len(text) : text[k] \in DigitSet \cup BnDigitSet \cup OtherDigitSet

is_numeric_text(text) == IsDigitStr(RemoveWs(normalize_bengali_digits(text)))

\* The length above which a text is never a law number.
LawNumberMaxLen == 4

_looks_like_law_number(text) ==
    IF Len(text) > LawNumberMaxLen THEN FALSE ELSE is_numeric_text(text)

_is_detail_link(href) ==
    LET h == Lower(href)
    IN  \/ Contains(h, <<"/", "a", "c", "t", "-", "d", "e", "t", "a", "i", "l", "s", "-">>)
        \/ Contains(h, <<"/", "l", "a", "w", "-", "d", "e", "t", "a", "i", "l", "s", "-">>)
        \/ Contains(h, <<"/", "a", "c", "t", "-", "d", "e", "t", "a", "i", "l", "s", "?", "i", "d", "=">>)
        \/ Contains(h, <<"/", "l", "a", "w", "-", "d", "e", "t", "a", "i", "l", "s", "?", "i", "d", "=">>)

\* An index page is the sequence of its title anchors, each with the row it
\* sits in: [href, text, cells, year], year being the text of the row's
\* third cell.
parse_index_entries(page, base) ==
    LET kept == SelectSeq(page, LAMBDA a :
                    /\ ACT_LINK_PATTERN(a.href) \/ _is_detail_link(a.href)
                    /\ a.text # <<>>
                    /\ ~_looks_like_law_number(a.text))
    IN  [k \in 1..Len(kept) |-> <<normalize_url(base, kept[k].href), kept[k].text>>]

\* int(year_str) succeeds on a non-empty run of digits.
RECURSIVE ToInt(_)
ToInt(ds) ==
    IF ds = <<>> THEN 0 ELSE 10 * ToInt(SubSeq(ds, 1, Len(ds) - 1)) + (IndexIn(ds[Len(ds)], Digits) - 1)

\* year_filter=[2024, 2025, 2026] at the call in run_scrape.
YearFilter == {2024, 2025, 2026}

parse_chronological_index_entries(page, base) ==
    LET kept == SelectSeq(page, LAMBDA a :
                    /\ a.cells >= 3
                    /\ ACT_LINK_PATTERN(a.href)
                    /\ a.text # <<>>
                    /\ ~_looks_like_law_number(a.text)
                    /\ Contains(a.text, BnOrdinance) \/ Contains(Lower(a.text), W_ordinance)
                    /\ LET y == normalize_bengali_digits(a.year)
                       IN  /\ y # <<>>
                           /\ \A i \in 1..Len(y) : y[i] \in DigitSet
                           /\ ToInt(y) \in YearFilter)
    IN  [k \in 1..Len(kept) |-> <<normalize_url(base, kept[k].href), kept[k].text>>]


(***************************************************************************)
(* The site and the configuration run_scrape is given                      *)
(***************************************************************************)

\* Bounds of the model.
MaxPagesCfg == 2
MaxVolumes == 2

Anchor(href, text, cells, year) ==
    [href |-> href, text |-> text, cells |-> cells, year |-> year]

\* The index pages the site may serve.
IndexPages ==
    { << Anchor(H_act1, T_amendment, 3, Y2025),
         Anchor(H_act2, T_plain, 3, Y2024bn),
         Anchor(H_act1, T_number, 3, Y2025) >>,
      << Anchor(H_law3, T_to_amend, 3, Y2025),
         Anchor(H_act2, T_plain_dot, 2, Y2025),
         Anchor(H_act1, T_plain, 3, Y1999) >>,
      << Anchor(H_pdf, T_plain, 3, Y2025) >>,
      << Anchor(H_act2, T_to_amend, 3, Y2025),
         Anchor(H_act2, T_plain_dot, 3, Y2025) >> }

D_in == Date(2025, 3, 20)
D_swapped == Date(2026, 1, 5)
D_out == Date(2023, 6, 15)

\* What a detail page holds, as parse_detail_page and extract_act_links read
\* it: the extracted title, the hrefs of its anchors, its document type,
\* its date, its PDF href and the href of its "view full law" button.
Page(title, hrefs, document_type, enactment_date, pdf_url, button) ==
    [ title |-> title, hrefs |-> hrefs, document_type |-> document_type,
      enactment_date |-> enactment_date, pdf_url |-> pdf_url, button |-> button ]

Ty_ORDINANCE == Some(<<"O", "R", "D", "I", "N", "A", "N", "C", "E">>)
Ty_ordinance == Some(<<"O", "r", "d", "i", "n", "a", "n", "c", "e">>)
Ty_act == Some(<<"A", "c", "t">>)

\* The detail pages the site may serve for a URL.
DetailPages ==
    { Page(T_plain, <<>>, Ty_ORDINANCE, Some(D_in), Some(H_pdf), None),
      Page(T_plain, <<H_act2>>, Ty_act, Some(D_in), None, None),
      Page(T_plain, <<>>, Ty_ordinance, Some(D_out), None, Some(H_details7)),
      Page(T_plain, <<>>, Ty_ordinance, Some(D_swapped), Some(H_pdf), None),
      Page(T_amendment, <<H_act2, H_act1, H_law3, H_details7>>, Ty_ordinance, Some(D_in),
           Some(H_pdf), None),
      Page(T_amendment, <<H_constitution, H_act2>>, Ty_ordinance, Some(D_in), None, None),
      Page(T_amendment, <<H_act9570>>, Ty_ORDINANCE, Some(D_in), None, Some(H_details7)),
      Page(T_amendment, <<>>, Ty_ordinance, None, None, None),
      Page(T_to_amend, <<>>, Ty_ordinance, Some(D_in), None, None),
      Page(<<>>, <<H_act1>>, None, None, None, None) }

\* The detail page of an original act, of which run_scrape reads the title
\* and the date.
OriginalPages ==
    { [title |-> T_amendment, enactment_date |-> Some(D_in)],
      [title |-> <<>>, enactment_date |-> None] }

\* The configurations of a run (the volume count matters to the volume
\* indexes only).
Configs ==
    { c \in [ use_chronological_index : BOOLEAN,
              volumes : 1..MaxVolumes,
              max_pages : 1..MaxPagesCfg,
              start_date : {Date(2024, 8, 8)},
              end_date : {Date(2026, 2, 28)} ] :
        c.use_chronological_index => c.volumes = 1 }

RawDir == <<"r", "a", "w", "/">>
FullTextDir == <<"f", "t", "/">>


(***************************************************************************)
(* run_scrape as a state machine: one step per blocking fetch              *)
(***************************************************************************)

VARIABLES
    cfg,                \* the ScrapeConfig of the run
    pc,                 \* the fetch run_scrape is about to issue, or done / aborted
    vol,                \* the volume index page to fetch next
    index_entries,      \* index_entries
    detail_links,       \* detail_links[: config.max_pages]
    title_lookup,       \* title_lookup
    records,            \* records
    constructed,        \* every OrdinanceRecord the loop has built, retained or not
    visited,            \* every detail page the loop has parsed, with what it resolved
    fetched_full_text,  \* fetched_full_text
    pos,                \* the position of the loop in detail_links
    cur,                \* the locals of the current iteration
    files,              \* full_text_dir: path of a .txt file -> the page its text is from
    outputs,            \* what _write_outputs wrote: None until it runs
    fetchLog,           \* every get_html call, in order: <<role, url, pos>>
    arg,                \* the argument of a call of one of the parsers on its own
    ret                 \* what that call returned: None until it returns

vars == <<cfg, pc, vol, index_entries, detail_links, title_lookup, records,
          constructed, visited, fetched_full_text, pos, cur, files, outputs, fetchLog,
          arg, ret>>

\* The variables of run_scrape and those of a call of a parser on its own.
runVars == <<cfg, pc, vol, index_entries, detail_links, title_lookup, records,
             constructed, visited, fetched_full_text, pos, cur, files, outputs, fetchLog>>
callVars == <<arg, ret>>

NoCur ==
    [ url |-> <<>>, parsed |-> None, is_amendment |-> FALSE, original |-> None,
      original_raw |-> None, original_title |-> None,
      original_act_details_url |-> None, original_full_text_source |-> None,
      original_enactment_date |-> None, orig_act_id |-> Unknown,
      act_details_url |-> None, pdf_url |-> None, act_id |-> Unknown ]

Init ==
    /\ cfg \in Configs
    /\ pc = "index"
    /\ vol = 1
    /\ index_entries = <<>>
    /\ detail_links = <<>>
    /\ title_lookup = <<>>
    /\ records = <<>>
    /\ constructed = <<>>
    /\ visited = <<>>
    /\ fetched_full_text = {}
    /\ pos = 0
    /\ cur = NoCur
    /\ files = <<>>
    /\ outputs = None
    /\ fetchLog = <<>>
    /\ arg = None
    /\ ret = None

ActDetailsUrl(base, id) ==
    base \o <<"/", "a", "c", "t", "-", "d", "e", "t", "a", "i", "l", "s", "-">> \o id \o DotHtml

FullTxtPath(id) ==
    FullTextDir \o <<"a", "c", "t", "-", "d", "e", "t", "a", "i", "l", "s", "-">> \o id
        \o <<".", "t", "x", "t">>

ActRef(id) == <<"a", "c", "t", "-">> \o id

\* extract_act_details_url: the button's href, when it has the shape
\* /act-details-<n>.html.
extract_act_details_url(button, base) ==
    IF /\ button # None
       /\ \E k \in 1..Len(Val(button)) :
              NumberedHtmlAt(Val(button),
                  <<"/", "a", "c", "t", "-", "d", "e", "t", "a", "i", "l", "s", "-">>, k)
    THEN Some(normalize_url(base, Val(button)))
    ELSE None

\* parse_detail_page
parse_detail_page(page, url, base) ==
    [ title |-> page.title,
      detail_url |-> url,
      document_type |-> page.document_type,
      enactment_date |-> page.enactment_date,
      pdf_url |-> page.pdf_url,
      act_details_url |-> extract_act_details_url(page.button, base) ]

\* if x and x.startswith("/"): x = normalize_url(base, x)
NormalizeIfRooted(x, base) ==
    IF Truthy(x) /\ Head(Val(x)) = "/" THEN Some(normalize_url(base, Val(x))) ELSE x

\* pipeline.py line 142: title=parsed["title"] or "Unknown title"
record_title(parsed_title) == OrElse(Some(parsed_title), T_unknown)

\* Lines 139-159: the record of the current document.
BuildRecord(c, full_text_source) ==
    [ title |-> record_title(Val(c.parsed).title),
      detail_url |-> c.url,
      act_details_url |-> c.act_details_url,
      enactment_date |-> _parse_iso_date(Val(c.parsed).enactment_date),
      document_type |-> Val(c.parsed).document_type,
      pdf_url |-> c.pdf_url,
      raw_source |-> RawDir \o safe_filename(c.url) \o DotHtml,
      act_id |-> IF c.act_id # Unknown THEN Some(ActRef(c.act_id)) ELSE None,
      full_text_source |-> full_text_source,
      is_amendment |-> c.is_amendment,
      original_detail_url |-> c.original,
      original_title |-> c.original_title,
      original_raw_source |-> c.original_raw,
      original_act_details_url |-> c.original_act_details_url,
      original_act_id |-> IF Truthy(c.original) /\ c.orig_act_id # Unknown
                          THEN Some(ActRef(c.orig_act_id)) ELSE None,
      original_full_text_source |-> c.original_full_text_source,
      original_enactment_date |-> c.original_enactment_date ]

\* Lines 161-164: the filter on the output set.
Retained(record) ==
    /\ _within_window(record.enactment_date, cfg.start_date, cfg.end_date)
    /\ _is_ordinance(record)

\* Lines 139-167: the record is built and filtered; after the last document
\* the outputs are written.
EndOfDocument(c, full_text_source) ==
    \E record \in {BuildRecord(c, full_text_source)} :
    \E recs \in {IF Retained(record) THEN Append(records, record) ELSE records} :
        /\ records' = recs
        /\ constructed' = Append(constructed, record)
        /\ cur' = NoCur
        /\ IF pos < Len(detail_links)
           THEN /\ pos' = pos + 1
                /\ pc' = "detail"
                /\ outputs' = outputs
           ELSE /\ pos' = pos
                /\ pc' = "done"
                /\ outputs' = Some(recs)

\* Lines 118-129: after the resolution of the original, up to the fetch of
\* the document's own full text (or, without one, to the end of the document).
AfterResolution(c) ==
    \E parsed \in {Val(c.parsed)} :
    \E pdf_url \in {NormalizeIfRooted(parsed.pdf_url, BaseUrl)} :
    \E act_id \in {_extract_act_id_from_url(c.url)} :
    \E button_url \in {NormalizeIfRooted(parsed.act_details_url, BaseUrl)} :
    \E act_details_url \in {IF ~Truthy(button_url) /\ act_id # Unknown
                             THEN Some(ActDetailsUrl(BaseUrl, act_id))
                             ELSE button_url} :
    \E c2 \in {[c EXCEPT !.pdf_url = pdf_url, !.act_id = act_id,
                          !.act_details_url = act_details_url]} :
        IF Truthy(act_details_url)
        THEN /\ pc' = "full"
             /\ cur' = c2
             /\ UNCHANGED <<records, constructed, pos, outputs>>
        ELSE EndOfDocument(c2, None)


Logged(role, url) == Append(fetchLog, <<role, url, pos>>)

\* A loop over the URL of every index entry, in index order, duplicates
\* included.
StartLoop_every_entry(entries) ==
    \E links \in {[k \in 1..Len(entries) |-> entries[k][1]]} :
    \E n \in {IF Len(links) < cfg.max_pages THEN Len(links) ELSE cfg.max_pages} :
        /\ index_entries' = entries
        /\ detail_links' = SubSeq(links, 1, n)
        /\ title_lookup' = _build_title_lookup(entries)
        /\ IF n > 0
           THEN /\ pc' = "detail"
                /\ pos' = 1
                /\ outputs' = outputs
           ELSE /\ pc' = "done"
                /\ pos' = pos
                /\ outputs' = Some(records)

\* Lines 62-67: the loop starts on the first max_pages links, or, with no
\* link, the (empty) outputs are written at once.
StartLoop(entries) ==
    \E links \in {SortedList({entries[k][1] : k \in 1..Len(entries)})} :
    \E n \in {IF Len(links) < cfg.max_pages THEN Len(links) ELSE cfg.max_pages} :
        /\ index_entries' = entries
        /\ detail_links' = SubSeq(links, 1, n)
        /\ title_lookup' = _build_title_lookup(entries)
        /\ IF n > 0
           THEN /\ pc' = "detail"
                /\ pos' = 1
                /\ outputs' = outputs
           ELSE /\ pc' = "done"
                /\ pos' = pos
                /\ outputs' = Some(records)

\* Lines 39-51: the chronological index is fetched and parsed.
GetChronologicalIndex ==
    /\ pc = "index"
    /\ cfg.use_chronological_index
    /\ \E page \in IndexPages :
          StartLoop(parse_chronological_index_entries(page, BaseUrl))
    /\ fetchLog' = Logged("index", <<"c", "h", "r", "o", "n", "o">>)
    /\ UNCHANGED <<cfg, vol, records, constructed, visited, fetched_full_text, cur, files>>
    /\ UNCHANGED callVars

\* Lines 53-60: one volume index is fetched and parsed; the last one starts
\* the loop.
GetVolumeIndex ==
    /\ pc = "index"
    /\ ~cfg.use_chronological_index
    /\ \E page \in IndexPages :
          \E entries \in {index_entries \o parse_index_entries(page, BaseUrl)} :
              IF vol < cfg.volumes
              THEN /\ index_entries' = entries
                   /\ vol' = vol + 1
                   /\ UNCHANGED <<pc, detail_links, title_lookup, pos, outputs>>
              ELSE /\ StartLoop(entries)
                   /\ vol' = vol
    /\ fetchLog' = Logged("index", <<"v", "o", "l", "u", "m", "e">>)
    /\ UNCHANGED <<cfg, records, constructed, visited, fetched_full_text, cur, files>>
    /\ UNCHANGED callVars

\* Lines 68-92: the detail page of the next document is fetched, parsed and
\* classified, and its original is resolved.
GetDetail ==
    /\ pc = "detail"
    /\ \E page \in DetailPages :
          \E url \in {detail_links[pos]} :
          \E parsed \in {parse_detail_page(page, url, BaseUrl)} :
          \E title \in {OrElse(Some(parsed.title), <<>>)} :
          \E is_amendment \in {_is_amendment_title(title)} :
          \E original \in {original_of(is_amendment, title, page.hrefs, url, BaseUrl,
                                       title_lookup)} :
          \E c \in {[NoCur EXCEPT !.url = url, !.parsed = Some(parsed),
                                  !.is_amendment = is_amendment, !.original = original,
                                  !.orig_act_id = IF Truthy(original)
                                                  THEN _extract_act_id_from_url(Val(original))
                                                  ELSE Unknown]} :
              /\ fetchLog' = Logged("detail", url)
              /\ visited' = Append(visited, [url |-> url, title |-> title,
                                             hrefs |-> page.hrefs,
                                             is_amendment |-> is_amendment,
                                             original |-> original])
              /\ IF is_amendment /\ Truthy(original)
                 THEN /\ pc' = "original"
                      /\ cur' = c
                      /\ UNCHANGED <<records, constructed, pos, outputs>>
                 ELSE AfterResolution(c)
    /\ UNCHANGED <<cfg, vol, index_entries, detail_links, title_lookup,
                   fetched_full_text, files>>
    /\ UNCHANGED callVars

\* The cache asked for the path instead of the act id.
in_full_text_cache_by_path(orig_act_id, path) ==
    path \in fetched_full_text /\ path \in DOMAIN files

\* Line 106: orig_act_id in fetched_full_text and orig_full_txt_path.exists()
in_full_text_cache(orig_act_id, path) ==
    orig_act_id \in fetched_full_text /\ path \in DOMAIN files

\* A resolution that follows the chain one step: an original whose own title
\* is an amendment is resolved through the Title Lookup and fetched in turn.
GetOriginal_following_chain ==
    /\ pc = "original"
    /\ \E page \in OriginalPages :
          \E original \in {Val(cur.original)} :
          \E orig_act_id \in {_extract_act_id_from_url(original)} :
          \E path \in {FullTxtPath(orig_act_id)} :
          \E c \in {[cur EXCEPT
                      !.original_title = Some(page.title),
                      !.original_raw = Some(RawDir \o safe_filename(original) \o DotHtml),
                      !.original_enactment_date = _parse_iso_date(page.enactment_date),
                      !.orig_act_id = orig_act_id,
                      !.original_act_details_url =
                          IF orig_act_id # Unknown
                          THEN Some(ActDetailsUrl(BaseUrl, orig_act_id)) ELSE None]} :
              /\ fetchLog' = Logged("original", original)
              /\ IF /\ _is_amendment_title(page.title)
                    /\ ~\E n \in 1..Len(fetchLog) :
                           fetchLog[n][1] = "original" /\ fetchLog[n][3] = pos
                    /\ Truthy(_find_original_link(page.title, title_lookup))
                 THEN /\ pc' = "original"
                      /\ cur' = [c EXCEPT !.original =
                                     _find_original_link(page.title, title_lookup)]
                      /\ UNCHANGED <<records, constructed, pos, outputs>>
                 ELSE IF orig_act_id = Unknown
                 THEN AfterResolution(c)
                 ELSE IF in_full_text_cache(orig_act_id, path)
                 THEN AfterResolution([c EXCEPT !.original_full_text_source = Some(path)])
                 ELSE /\ pc' = "orig_full"
                      /\ cur' = c
                      /\ UNCHANGED <<records, constructed, pos, outputs>>
    /\ UNCHANGED <<cfg, vol, index_entries, detail_links, title_lookup, visited,
                   fetched_full_text, files>>
    /\ UNCHANGED callVars

\* Lines 93-107: the original's detail page is fetched and parsed; its full
\* text is taken from the cache when the act id is in it.
GetOriginal ==
    /\ pc = "original"
    /\ \E page \in OriginalPages :
          \E original \in {Val(cur.original)} :
          \E orig_act_id \in {_extract_act_id_from_url(original)} :
          \E path \in {FullTxtPath(orig_act_id)} :
          \E c \in {[cur EXCEPT
                      !.original_title = Some(page.title),
                      !.original_raw = Some(RawDir \o safe_filename(original) \o DotHtml),
                      !.original_enactment_date = _parse_iso_date(page.enactment_date),
                      !.orig_act_id = orig_act_id,
                      !.original_act_details_url =
                          IF orig_act_id # Unknown
                          THEN Some(ActDetailsUrl(BaseUrl, orig_act_id)) ELSE None]} :
              /\ fetchLog' = Logged("original", original)
              /\ IF orig_act_id = Unknown
                 THEN AfterResolution(c)
                 ELSE IF in_full_text_cache(orig_act_id, path)
                 THEN AfterResolution([c EXCEPT !.original_full_text_source = Some(path)])
                 ELSE /\ pc' = "orig_full"
                      /\ cur' = c
                      /\ UNCHANGED <<records, constructed, pos, outputs>>
    /\ UNCHANGED <<cfg, vol, index_entries, detail_links, title_lookup, visited,
                   fetched_full_text, files>>
    /\ UNCHANGED callVars

\* Lines 109-117: the original's full text is fetched, written and cached.
GetOriginalFullText ==
    /\ pc = "orig_full"
    /\ \E url \in {Val(cur.original_act_details_url)} :
       \E path \in {FullTxtPath(cur.orig_act_id)} :
           /\ fetchLog' = Logged("orig_full", url)
           /\ files' = (path :> url) @@ files
           /\ fetched_full_text' = fetched_full_text \cup {cur.orig_act_id}
           /\ AfterResolution([cur EXCEPT !.original_full_text_source = Some(path)])
    /\ UNCHANGED <<cfg, vol, index_entries, detail_links, title_lookup, visited>>
    /\ UNCHANGED callVars

\* Lines 130-138: the document's own full text is fetched and written.
GetFullText ==
    /\ pc = "full"
    /\ \E url \in {Val(cur.act_details_url)} :
       \E path \in {FullTxtPath(cur.act_id)} :
           /\ fetchLog' = Logged("full", url)
           /\ files' = (path :> url) @@ files
           /\ EndOfDocument(cur, Some(path))
    /\ UNCHANGED <<cfg, vol, index_entries, detail_links, title_lookup, visited,
                   fetched_full_text>>
    /\ UNCHANGED callVars

\* A failure that is caught per document: the failing fetch of a document's
\* own full text is skipped and the run goes on.
FetchFails_per_document ==
    /\ pc \in {"index", "detail", "original", "orig_full", "full"}
    /\ fetchLog' = Logged("failed", <<>>)
    /\ IF pc = "full"
       THEN EndOfDocument(cur, None)
       ELSE /\ pc' = "aborted"
            /\ UNCHANGED <<records, constructed, pos, cur, outputs>>
    /\ UNCHANGED <<cfg, vol, index_entries, detail_links, title_lookup, visited,
                   fetched_full_text, files>>
    /\ UNCHANGED callVars

\* get_html raises (response.raise_for_status()): nothing in run_scrape
\* catches it, so the run ends there.
FetchFails ==
    /\ pc \in {"index", "detail", "original", "orig_full", "full"}
    /\ pc' = "aborted"
    /\ fetchLog' = Logged("failed", <<>>)
    /\ UNCHANGED <<cfg, vol, index_entries, detail_links, title_lookup, records,
                   constructed, visited, fetched_full_text, pos, cur, files, outputs>>
    /\ UNCHANGED callVars

Next ==
    \/ GetChronologicalIndex
    \/ GetVolumeIndex
    \/ GetDetail
    \/ GetOriginal
    \/ GetOriginalFullText
    \/ GetFullText
    \/ FetchFails

Spec == Init /\ [][Next]_vars


(***************************************************************************)
(* _build_title_lookup on its own: any index of up to MaxEntries entries   *)
(***************************************************************************)

MaxEntries == 3

\* Titles of index entries: two that normalize to the same key, one that
\* normalizes to the empty key, and the empty text the function skips.
EntryTexts == {T_plain, T_plain_dot, T_amendment, <<"?">>, <<>>}
EntryUrls == {BaseUrl \o H_act1, BaseUrl \o H_act2}

RECURSIVE SeqsUpTo(_, _)
SeqsUpTo(S, n) ==
    IF n = 0 THEN {<<>>}
    ELSE SeqsUpTo(S, n - 1) \cup
         {Append(q, x) : q \in {r \in SeqsUpTo(S, n - 1) : Len(r) = n - 1}, x \in S}

\* The variables of run_scrape before its first step, but pc and
\* index_entries.
Idle ==
    /\ cfg = CHOOSE c \in Configs : TRUE
    /\ vol = 1
    /\ detail_links = <<>>
    /\ title_lookup = <<>>
    /\ records = <<>>
    /\ constructed = <<>>
    /\ visited = <<>>
    /\ fetched_full_text = {}
    /\ pos = 0
    /\ cur = NoCur
    /\ files = <<>>
    /\ outputs = None
    /\ fetchLog = <<>>

InitLookup ==
    /\ pc = "call"
    /\ index_entries \in SeqsUpTo(EntryUrls \X EntryTexts, MaxEntries)
    /\ Idle
    /\ arg = None
    /\ ret = None

\* Line 63: title_lookup = _build_title_lookup(index_entries)
BuildTitleLookup ==
    /\ pc = "call"
    /\ title_lookup' = _build_title_lookup(index_entries)
    /\ pc' = "return"
    /\ UNCHANGED <<cfg, vol, index_entries, detail_links, records, constructed, visited,
                   fetched_full_text, pos, cur, files, outputs, fetchLog>>
    /\ UNCHANGED callVars

NextLookup == BuildTitleLookup

SpecLookup == InitLookup /\ [][NextLookup]_vars


(***************************************************************************)
(* The parsed tree of a page (BeautifulSoup, parse.py)                     *)
(***************************************************************************)

\* A document is the sequence of its elements in document order; an element
\* has a kind (its tag and class), its parent's position (0: <body>, which
\* the lxml parser gives every page), the text directly in it and, for an
\* anchor, its href.
Element(kind, parent, text, href) ==
    [kind |-> kind, parent |-> parent, text |-> text, href |-> href]

\* e is below a (a is an element, or 0 for the whole page).
RECURSIVE IsUnder(_, _, _)
IsUnder(doc, e, a) ==
    IF e = 0 THEN FALSE
    ELSE doc[e].parent = a \/ IsUnder(doc, doc[e].parent, a)

\* The sequences of elements that are the document order of a tree: the
\* parent of an element is the element before it or one of that one's
\* ancestors.
InDocumentOrder(doc) ==
    \A e \in 1..Len(doc) :
        /\ doc[e].parent < e
        /\ doc[e].parent \in {0, e - 1} \/ IsUnder(doc, e - 1, doc[e].parent)

\* The positions of a set in ascending order.
RECURSIVE Ascending(_)
Ascending(S) ==
    IF S = {} THEN <<>>
    ELSE LET least == CHOOSE x \in S : \A y \in S : x <= y
         IN  <<least>> \o Ascending(S \ {least})

\* find_all under scope (0: soup.find_all) of the elements of the kinds
\* that are among the elements kept.
find_all(doc, kept, scope, kinds) ==
    Ascending({e \in kept : doc[e].kind \in kinds /\ IsUnder(doc, e, scope)})

\* find: the first of them, or 0 (None).
find(doc, kept, scope, kinds) ==
    IF find_all(doc, kept, scope, kinds) = <<>> THEN 0
    ELSE find_all(doc, kept, scope, kinds)[1]

\* str.strip() for the whitespace of the model, the space.
RECURSIVE StripWs(_)
StripWs(s) ==
    IF s # <<>> /\ Head(s) = " " THEN StripWs(Tail(s))
    ELSE IF s # <<>> /\ s[Len(s)] = " " THEN StripWs(SubSeq(s, 1, Len(s) - 1))
    ELSE s

\* sep.join(parts)
RECURSIVE Join(_, _)
Join(parts, sep) ==
    IF parts = <<>> THEN <<>>
    ELSE IF Len(parts) = 1 THEN parts[1]
    ELSE parts[1] \o sep \o Join(Tail(parts), sep)

\* The stripped, non-empty strings of e (0: of the page) and of the kept
\* elements below it, in document order.
Strings(doc, kept, e) ==
    LET under == Ascending({d \in kept : d = e \/ IsUnder(doc, d, e)})
    IN  SelectSeq([k \in 1..Len(under) |-> StripWs(doc[under[k]].text)],
                  LAMBDA t : t # <<>>)

\* Tag.get_text(separator=sep, strip=True)
get_text(doc, kept, e, sep) == Join(Strings(doc, kept, e), sep)

Newline == <<"\n">>

\* What an element is, apart from where it sits.
Shapes(kinds, texts, hrefs) ==
    {[kind |-> k, text |-> t, href |-> h] : k \in kinds, t \in texts, h \in hrefs}

\* The documents of up to n elements of the shapes.
RECURSIVE Documents(_, _)
Documents(shapes, n) ==
    IF n = 0 THEN {<<>>}
    ELSE LET shorter == Documents(shapes, n - 1)
         IN  shorter \cup
             { doc \in { Append(d, Element(sh.kind, q, sh.text, sh.href)) :
                            d \in {x \in shorter : Len(x) = n - 1},
                            sh \in shapes, q \in 0..(n - 1) } :
                 InDocumentOrder(doc) }

\* The variables of run_scrape while a parser is called on its own.
InitCall(documents) ==
    /\ pc = "call"
    /\ arg \in documents
    /\ ret = None
    /\ index_entries = <<>>
    /\ Idle


(***************************************************************************)
(* parse.py: extract_full_text_from_act_details                            *)
(***************************************************************************)

\* Lines 77-78: what is left of the page once the script, style, nav, header
\* and footer elements are decomposed.
AfterDecompose(doc) ==
    { e \in 1..Len(doc) :
        /\ doc[e].kind # "skip"
        /\ ~\E a \in 1..Len(doc) : doc[a].kind = "skip" /\ IsUnder(doc, e, a) }

\* Lines 83-88: what a row adds to parts.
RowParts(doc, kept, row) ==
    LET txt_details == find(doc, kept, row, {"txt-details"})
        txt_head == find(doc, kept, row, {"txt-head"})
    IN  IF txt_details # 0 THEN <<get_text(doc, kept, txt_details, Newline)>>
        ELSE IF txt_head # 0 THEN <<get_text(doc, kept, txt_head, Newline)>>
        ELSE <<>>

RECURSIVE PartsOf(_, _, _)
PartsOf(doc, kept, rows) ==
    IF rows = <<>> THEN <<>>
    ELSE RowParts(doc, kept, rows[1]) \o PartsOf(doc, kept, Tail(rows))

\* Lines 79-90: the strategy of the striped section. `if section:` and
\* `if parts:` ask whether the section was found and whether the list has an
\* item, not whether there is text.
extract_full_text_from_act_details(doc) ==
    LET kept == AfterDecompose(doc)
        section == find(doc, kept, 0, {"bg-striped"})
        parts == IF section # 0
                 THEN PartsOf(doc, kept, find_all(doc, kept, section, {"row"}))
                 ELSE <<>>
        all_txt == find_all(doc, kept, 0, {"txt-details"})
        content == find(doc, kept, 0, {"act-details-content"})
        main == IF content # 0 THEN content ELSE find(doc, kept, 0, {"main"})
    IN  IF parts # <<>> THEN Join(parts, Newline \o Newline)
        ELSE IF all_txt # <<>>
             THEN Join([k \in 1..Len(all_txt) |-> get_text(doc, kept, all_txt[k], Newline)],
                       Newline \o Newline)
        ELSE get_text(doc, kept, main, Newline)

MaxNodes == 3

FullTextKinds ==
    {"bg-striped", "row", "txt-details", "txt-head", "act-details-content", "main", "skip", "p"}
FullTextTexts == {<<>>, <<" ">>, <<"a">>}

InitFullText == InitCall(Documents(Shapes(FullTextKinds, FullTextTexts, {None}), MaxNodes))

CallExtractFullText ==
    /\ pc = "call"
    /\ ret' = Some(extract_full_text_from_act_details(arg))
    /\ pc' = "return"
    /\ UNCHANGED <<cfg, vol, index_entries, detail_links, title_lookup, records, constructed,
                   visited, fetched_full_text, pos, cur, files, outputs, fetchLog, arg>>

NextFullText == CallExtractFullText

SpecFullText == InitFullText /\ [][NextFullText]_vars


(***************************************************************************)
(* parse.py: _extract_title, and the title of the record                   *)
(***************************************************************************)

\* Lines 160-163: the first element of the tag, when it has text.
RECURSIVE FirstHeading(_, _)
FirstHeading(doc, tags) ==
    IF tags = <<>> THEN None
    ELSE LET heading == find(doc, 1..Len(doc), 0, {Head(tags)})
         IN  IF heading # 0 /\ get_text(doc, 1..Len(doc), heading, <<>>) # <<>>
             THEN Some(get_text(doc, 1..Len(doc), heading, <<>>))
             ELSE FirstHeading(doc, Tail(tags))

_extract_title(doc) ==
    LET all == 1..Len(doc)
        act_section == find(doc, all, 0, {"bg-act-section"})
        h3 == IF act_section # 0 THEN find(doc, all, act_section, {"h3"}) ELSE 0
        title_tag == find(doc, all, 0, {"title"})
    IN  IF h3 # 0 /\ get_text(doc, all, h3, <<>>) # <<>> THEN get_text(doc, all, h3, <<>>)
        ELSE IF FirstHeading(doc, <<"h1", "h2", "h3">>) # None
             THEN Val(FirstHeading(doc, <<"h1", "h2", "h3">>))
        ELSE IF title_tag # 0 THEN get_text(doc, all, title_tag, <<>>)
        ELSE T_unknown

MaxTitleNodes == 3

TitleKinds == {"bg-act-section", "h1", "h2", "h3", "title"}

\* An element has no text but white space, or a text of its own with white
\* space around it: the letter of its position.
TitleTexts == {<<" ">>, <<" ", "x", " ">>}
Letters == <<"a", "b", "c", "d", "e">>
Lettered(doc) ==
    [e \in 1..Len(doc) |->
        IF doc[e].text = <<" ">> THEN doc[e]
        ELSE [doc[e] EXCEPT !.text = <<" ", Letters[e], " ">>]]

InitTitle ==
    InitCall({Lettered(doc) : doc \in Documents(Shapes(TitleKinds, TitleTexts, {None}), MaxTitleNodes)})

\* parse_detail_page extracts the title and run_scrape puts it in the record.
CallExtractTitle ==
    /\ pc = "call"
    /\ ret' = Some([parsed_title |-> _extract_title(arg),
                    title |-> record_title(_extract_title(arg))])
    /\ pc' = "return"
    /\ UNCHANGED <<cfg, vol, index_entries, detail_links, title_lookup, records, constructed,
                   visited, fetched_full_text, pos, cur, files, outputs, fetchLog, arg>>

NextTitle == CallExtractTitle

SpecTitle == InitTitle /\ [][NextTitle]_vars


(***************************************************************************)
(* parse.py: _extract_pdf_url                                              *)
(***************************************************************************)

\* find_all("a", href=True): the anchors with an href.
AnchorsWithHref(doc) == {e \in 1..Len(doc) : doc[e].kind = "a" /\ doc[e].href # None}

\* href.lower().endswith(".pdf")
EndsInPdf(href) == EndsWith(Lower(href), <<".", "p", "d", "f">>)

\* The anchor _extract_pdf_url takes the href of (0: it returns None).
PdfAnchor(doc) ==
    LET act_up == find(doc, 1..Len(doc), 0, {"act-up-files"})
        link == IF act_up # 0 THEN find(doc, AnchorsWithHref(doc), act_up, {"a"}) ELSE 0
        anchors == Ascending({e \in AnchorsWithHref(doc) : EndsInPdf(Val(doc[e].href))})
    IN  IF link # 0 /\ EndsInPdf(Val(doc[link].href)) THEN link
        ELSE IF anchors # <<>> THEN anchors[1]
        ELSE 0

_extract_pdf_url(doc) ==
    IF PdfAnchor(doc) = 0 THEN None ELSE doc[PdfAnchor(doc)].href

MaxPdfNodes == 4

PdfKinds == {"act-up-files", "td"}
PdfHrefs ==
    {None, Some(H_pdf), Some(<<"/", "G", ".", "P", "D", "F">>), Some(<<"/", "g", ".", "d", "o", "c">>)}

\* The pages of up to n elements with at most one official-files cell: cells
\* without an href, and anchors with or without one.
PdfDocuments(n) ==
    { doc \in Documents(Shapes(PdfKinds, {<<>>}, {None}) \cup Shapes({"a"}, {<<>>}, PdfHrefs), n) :
        Cardinality({e \in 1..Len(doc) : doc[e].kind = "act-up-files"}) <= 1 }

InitPdf == InitCall(PdfDocuments(MaxPdfNodes))

CallExtractPdfUrl ==
    /\ pc = "call"
    /\ ret' = Some([anchor |-> PdfAnchor(arg), pdf_url |-> _extract_pdf_url(arg)])
    /\ pc' = "return"
    /\ UNCHANGED <<cfg, vol, index_entries, detail_links, title_lookup, records, constructed,
                   visited, fetched_full_text, pos, cur, files, outputs, fetchLog, arg>>

NextPdf == CallExtractPdfUrl

SpecPdf == InitPdf /\ [][NextPdf]_vars


(***************************************************************************)
(* parse.py: _looks_like_law_number on its own                             *)
(***************************************************************************)

MaxTextLen == 5

\* The characters of an anchor text: an ASCII digit, a Bengali digit, a
\* digit of another script, a space and a letter.
LawNumberChars == {"1", "bn_2", "ar_3", " ", "x"}

InitLawNumber == InitCall(SeqsUpTo(LawNumberChars, MaxTextLen) \ {<<>>})

CallLooksLikeLawNumber ==
    /\ pc = "call"
    /\ ret' = Some(_looks_like_law_number(arg))
    /\ pc' = "return"
    /\ UNCHANGED <<cfg, vol, index_entries, detail_links, title_lookup, records, constructed,
                   visited, fetched_full_text, pos, cur, files, outputs, fetchLog, arg>>

NextLawNumber == CallLooksLikeLawNumber

SpecLawNumber == InitLawNumber /\ [][NextLawNumber]_vars


(***************************************************************************)
(* pipeline.py: the amendment classification of a parsed title             *)
(***************************************************************************)

MaxTitleLen == 5

T_some_amendment_act ==
    <<"S", "o", "m", "e", " ", "O", "r", "d", "i", "n", "a", "n", "c", "e", " ", "(",
      "A", "m", "e", "n", "d", "m", "e", "n", "t", ")", " ", "A", "c", "t", ",", " ",
      "2", "0", "2", "5">>
T_some_ordinance ==
    <<"S", "o", "m", "e", " ", "O", "r", "d", "i", "n", "a", "n", "c", "e", ",", " ",
      "2", "0", "2", "5">>
T_bengali_amendment == <<"X", " ">> \o BnSongshodhon \o <<" ">> \o BnOrdinance

\* The parsed titles: the two above, a Bengali one, the titles of the site
\* and every text of up to n characters of "Amend.".
ParsedTitles(n) ==
    {T_some_amendment_act, T_some_ordinance, T_bengali_amendment, T_plain, T_amendment, T_to_amend}
        \cup SeqsUpTo({"A", "m", "e", "n", "d", "."}, n)

InitClassify == InitCall(ParsedTitles(MaxTitleLen))

\* Lines 72-73 and 151: is_amendment is the classification of the parsed
\* title and goes into the record as it is.
CallIsAmendmentTitle ==
    /\ pc = "call"
    /\ ret' = Some([is_amendment |-> _is_amendment_title(OrElse(Some(arg), <<>>))])
    /\ pc' = "return"
    /\ UNCHANGED <<cfg, vol, index_entries, detail_links, title_lookup, records, constructed,
                   visited, fetched_full_text, pos, cur, files, outputs, fetchLog, arg>>

NextClassify == CallIsAmendmentTitle

SpecClassify == InitClassify /\ [][NextClassify]_vars


(***************************************************************************)
(* utils.py: strip_amendment_terms on its own                              *)
(***************************************************************************)

MaxWords == 4

\* The words of the normalized titles: two that are no term, and words of
\* the vocabulary, English and Bengali.
TitleWords ==
    {<<"x">>, Y2025, W_second, W_first, W_amendment, W_act, BnProthom, BnSongshodhon}

\* The normalized titles of up to n of these words.
NormalizedTitles(n) == {Join(ws, Sp) : ws \in SeqsUpTo(TitleWords, n)}

InitStrip == InitCall(NormalizedTitles(MaxWords))

\* Line 246: stripped = strip_amendment_terms(normalized)
CallStripAmendmentTerms ==
    /\ pc = "call"
    /\ ret' = Some(strip_amendment_terms(arg))
    /\ pc' = "return"
    /\ UNCHANGED <<cfg, vol, index_entries, detail_links, title_lookup, records, constructed,
                   visited, fetched_full_text, pos, cur, files, outputs, fetchLog, arg>>

NextStrip == CallStripAmendmentTerms

SpecStrip == InitStrip /\ [][NextStrip]_vars


(***************************************************************************)
(* Properties of run_scrape                                                *)
(***************************************************************************)

OriginalFields ==
    { "original_detail_url", "original_title", "original_raw_source",
      "original_act_details_url", "original_act_id", "original_full_text_source",
      "original_enactment_date" }

NoOriginal(record) == \A f \in OriginalFields : record[f] = None

\* The output set: what _write_outputs wrote, or nothing before it runs.
OutputSet == IF outputs = None THEN <<>> ELSE Val(outputs)

\* C1: every record run_scrape constructs with is_amendment false, retained
\* or not, has its seven original_* fields null, and so has every record of
\* the output set.
C1_NonAmendmentHasNoOriginal ==
    /\ \A k \in 1..Len(constructed) :
           ~constructed[k].is_amendment => NoOriginal(constructed[k])
    /\ \A k \in 1..Len(records) :
           ~records[k].is_amendment => NoOriginal(records[k])
    /\ \A k \in 1..Len(OutputSet) :
           ~OutputSet[k].is_amendment => NoOriginal(OutputSet[k])

\* A non-amendment document whose page links to another act has been
\* visited, and the outputs hold a non-amendment record.
C1_Witness ==
    /\ outputs # None
    /\ \E k \in 1..Len(OutputSet) : ~OutputSet[k].is_amendment
    /\ \E k \in 1..Len(constructed) :
           /\ ~constructed[k].is_amendment
           /\ candidate_links(visited[k].hrefs, visited[k].url, BaseUrl) # <<>>

\* A date as the number YYYYMMDD.
DayNumber(dt) == dt.y * 10000 + dt.m * 100 + dt.d

\* The two conditions of the output filter, read off the record.
InWindowOrdinance(record) ==
    /\ record.enactment_date # None
    /\ DayNumber(cfg.start_date) <= DayNumber(Val(record.enactment_date))
    /\ DayNumber(Val(record.enactment_date)) <= DayNumber(cfg.end_date)
    /\ record.document_type # None
    /\ \E k \in 1..Len(Val(record.document_type)) :
           StartsAt(Lower(Val(record.document_type)), W_ordinance, k)

\* C2: after a run, every record of the output set has an enactment date
\* inside the window and a document type containing "ordinance" in any case,
\* and every visited document whose record meets both conditions is in the
\* output set (the output set is exactly those records, in visiting order).
C2_OutputFilter ==
    outputs # None =>
        /\ \A k \in 1..Len(OutputSet) : InWindowOrdinance(OutputSet[k])
        /\ \A k \in 1..Len(constructed) :
               InWindowOrdinance(constructed[k]) =>
                   \E j \in 1..Len(OutputSet) : OutputSet[j] = constructed[k]
        /\ OutputSet = SelectSeq(constructed, InWindowOrdinance)

\* A run has ended whose output set holds a record with an upper-case type
\* and leaves out a visited document.
C2_Witness ==
    /\ outputs # None
    /\ \E k \in 1..Len(OutputSet) : OutputSet[k].document_type = Ty_ORDINANCE
    /\ Len(OutputSet) < Len(constructed)

\* The positions of the log at which the full text of act id was fetched as
\* an original's.
OriginalFullTextFetches(id) ==
    { a \in 1..Len(fetchLog) :
        /\ fetchLog[a][1] = "orig_full"
        /\ fetchLog[a][2] = ActDetailsUrl(BaseUrl, id) }

\* C3: within a run the full-text page of an act is fetched at most once as
\* an original's: every such fetch puts the act id in the cache, no two of
\* them are for the same page, and every record resolved to an act id has the
\* cached text, fetched exactly once, by its own document or an earlier one.
C3_OriginalFullTextFetchedOnce ==
    /\ \A a, b \in 1..Len(fetchLog) :
           /\ fetchLog[a][1] = "orig_full"
           /\ fetchLog[b][1] = "orig_full"
           /\ fetchLog[a][2] = fetchLog[b][2]
           => a = b
    /\ \A a \in 1..Len(fetchLog) :
           fetchLog[a][1] = "orig_full" =>
               \E id \in fetched_full_text : a \in OriginalFullTextFetches(id)
    /\ \A k \in 1..Len(constructed) :
           constructed[k].original_act_id # None =>
               \E id \in fetched_full_text :
                   /\ constructed[k].original_act_id = Some(ActRef(id))
                   /\ constructed[k].original_full_text_source = Some(FullTxtPath(id))
                   /\ Cardinality(OriginalFullTextFetches(id)) = 1
                   /\ \A a \in OriginalFullTextFetches(id) : fetchLog[a][3] <= k

\* Two amendments of one run have resolved to the same act, the second
\* without a fetch of its own.
C3_Witness ==
    \E k, j \in 1..Len(constructed) :
        /\ k < j
        /\ constructed[k].original_act_id # None
        /\ constructed[k].original_act_id = constructed[j].original_act_id
        /\ constructed[j].original_full_text_source # None
        /\ ~\E a \in 1..Len(fetchLog) : fetchLog[a][1] = "orig_full" /\ fetchLog[a][3] = j

\* The URL of the constitution: the document of act id 957.
IsConstitutionUrl(link) ==
    EndsWith(link, <<"/", "a", "c", "t", "-", "9", "5", "7">> \o DotHtml)

\* The candidate originals of a visited page as C4 states them: its strict
\* act/law links, without the document's own URL and the constitution's.
StatedCandidates(v) ==
    SortedList({ link \in { normalize_url(BaseUrl, v.hrefs[n]) :
                               n \in { m \in 1..Len(v.hrefs) : ACT_LINK_PATTERN(v.hrefs[m]) } } :
                   link # v.url /\ ~IsConstitutionUrl(link) })

\* C4: the original of an amendment is the first, in sorted order, of the
\* strict act/law links of its page other than its own URL and the
\* constitution's URL - no other link is left out - and the Title Lookup
\* decides only when there is no such link.
C4_CandidatesAreAllOtherActLinks ==
    \A k \in 1..Len(visited) :
        visited[k].is_amendment =>
            IF StatedCandidates(visited[k]) # <<>>
            THEN visited[k].original = Some(StatedCandidates(visited[k])[1])
            ELSE visited[k].original = _find_original_link(visited[k].title, title_lookup)

\* The page of a document the code calls an amendment with no candidate link
\* and no key in the Title Lookup.
ResolutionMiss(v) ==
    /\ v.is_amendment
    /\ strip_amendment_terms(normalize_title(v.title)) \notin DOMAIN title_lookup
    /\ candidate_links(v.hrefs, v.url, BaseUrl) = <<>>

\* C5: a resolution miss is no error: no original is fetched for the
\* document, the run goes on to the document's own full text and to its
\* record (only a failing fetch of that full text ends it), and the record
\* has is_amendment true and the seven original_* fields null.
C5_ResolutionMissIsTerminal ==
    \A k \in 1..Len(visited) :
        ResolutionMiss(visited[k]) =>
            /\ ~\E a \in 1..Len(fetchLog) :
                   fetchLog[a][1] \in {"original", "orig_full"} /\ fetchLog[a][3] = k
            /\ \/ k <= Len(constructed)
               \/ pos = k /\ pc = "full"
               \/ pos = k /\ pc = "aborted" /\ cur.act_details_url # None
            /\ k <= Len(constructed) =>
                   /\ constructed[k].is_amendment
                   /\ NoOriginal(constructed[k])
                   /\ constructed[k].detail_url = visited[k].url

\* A miss has happened, its record is built, and the run has gone on to the
\* next document.
C5_Witness ==
    \E k \in 1..Len(visited) :
        /\ ResolutionMiss(visited[k])
        /\ k <= Len(constructed)
        /\ k < Len(visited)

\* C7: a failing fetch, of whatever page, ends the run: it is the last thing
\* the run does (every step of run_scrape is a fetch, so nothing is fetched or
\* processed after it), and the outputs are not written, whatever documents
\* were processed before.
C7_FetchFailureAbortsRun ==
    /\ \A a \in 1..Len(fetchLog) :
           fetchLog[a][1] = "failed" => a = Len(fetchLog) /\ pc = "aborted"
    /\ pc = "aborted" =>
           /\ outputs = None
           /\ fetchLog # <<>>
           /\ fetchLog[Len(fetchLog)][1] = "failed"
    /\ outputs # None => pc = "done"

\* A fetch has failed after a document was processed and retained.
C7_Witness ==
    /\ pc = "aborted"
    /\ Len(records) >= 1
    /\ pos = Len(constructed) + 1
    /\ outputs = None

\* The Title Lookup has been built from index_entries.
LookupBuilt == pc \in {"detail", "original", "orig_full", "full", "done", "return"}

\* The positions of the index entries with a non-empty title.
Titled == {k \in 1..Len(index_entries) : index_entries[k][2] # <<>>}

\* C6: the Title Lookup has a key for the normalized title of every index
\* entry with a non-empty title, of the whole index, and no other key, and
\* maps it to the URL of the first entry, in index order, with that
\* normalized title: a later entry never replaces it.
C6_TitleLookupFirstOccurrenceWins ==
    LookupBuilt =>
        /\ DOMAIN title_lookup = {normalize_title(index_entries[k][2]) : k \in Titled}
        /\ \A k \in Titled :
               \E first \in Titled :
                   /\ normalize_title(index_entries[first][2]) =
                          normalize_title(index_entries[k][2])
                   /\ \A j \in Titled :
                          normalize_title(index_entries[j][2]) =
                              normalize_title(index_entries[k][2]) => first <= j
                   /\ title_lookup[normalize_title(index_entries[k][2])] =
                          index_entries[first][1]

\* A lookup has been built from an index in which a later entry has the
\* normalized title of an earlier one and another URL.
C6_Witness ==
    /\ pc = "return"
    /\ \E k, j \in Titled :
           /\ k < j
           /\ index_entries[k][2] # index_entries[j][2]
           /\ normalize_title(index_entries[k][2]) = normalize_title(index_entries[j][2])
           /\ index_entries[k][1] # index_entries[j][1]
           /\ title_lookup[normalize_title(index_entries[j][2])] = index_entries[k][1]
    /\ \E k \in 1..Len(index_entries) : index_entries[k][2] = <<>>

\* The result of a strategy that found its elements, as C8 states them.
StripedSectionText(doc) ==
    LET kept == AfterDecompose(doc)
        section == find(doc, kept, 0, {"bg-striped"})
    IN  IF section = 0 THEN <<>>
        ELSE Join(PartsOf(doc, kept, find_all(doc, kept, section, {"row"})),
                  Newline \o Newline)

DetailsText(doc) ==
    LET kept == AfterDecompose(doc)
        all_txt == find_all(doc, kept, 0, {"txt-details"})
    IN  Join([k \in 1..Len(all_txt) |-> get_text(doc, kept, all_txt[k], Newline)],
             Newline \o Newline)

ContainerText(doc) ==
    LET kept == AfterDecompose(doc)
        content == find(doc, kept, 0, {"act-details-content"})
        main == IF content # 0 THEN content ELSE find(doc, kept, 0, {"main"})
    IN  get_text(doc, kept, main, Newline)

BodyText(doc) == get_text(doc, AfterDecompose(doc), 0, Newline)

\* C8: extract_full_text_from_act_details returns the result of the first of
\* its three strategies whose result is non-empty text, and the empty string
\* only for a document without any text: a page whose body has text yields
\* non-empty text.
C8_FirstNonEmptyStrategyWins ==
    pc = "return" =>
        /\ Val(ret) = IF StripedSectionText(arg) # <<>> THEN StripedSectionText(arg)
                      ELSE IF DetailsText(arg) # <<>> THEN DetailsText(arg)
                      ELSE ContainerText(arg)
        /\ Val(ret) = <<>> => BodyText(arg) = <<>>

\* The text of the first element of a kind below scope, or nothing.
TextOfFirst(doc, scope, kind) ==
    IF \E e \in 1..Len(doc) : doc[e].kind = kind /\ IsUnder(doc, e, scope)
    THEN get_text(doc, 1..Len(doc),
                  CHOOSE e \in 1..Len(doc) :
                      /\ doc[e].kind = kind /\ IsUnder(doc, e, scope)
                      /\ \A d \in 1..Len(doc) :
                             doc[d].kind = kind /\ IsUnder(doc, d, scope) => e <= d,
                  <<>>)
    ELSE <<>>

\* The heading inside the page-section marker.
SectionHeadingText(doc) ==
    IF \E e \in 1..Len(doc) : doc[e].kind = "bg-act-section"
    THEN TextOfFirst(doc, CHOOSE e \in 1..Len(doc) :
                             /\ doc[e].kind = "bg-act-section"
                             /\ \A d \in 1..Len(doc) :
                                    doc[d].kind = "bg-act-section" => e <= d,
                     "h3")
    ELSE <<>>

\* C9: the extracted title is (a) the text of the heading inside the
\* page-section marker if it is non-empty, else (b) the text of the first of
\* H1, H2, H3, in that tag order, that is non-empty, else (c) the text of the
\* title element, else (d) "Unknown title"; it is never empty: when none of
\* (a)-(c) has text it is "Unknown title".
C9_TitleChain ==
    pc = "return" =>
        /\ Val(ret).parsed_title =
               IF SectionHeadingText(arg) # <<>> THEN SectionHeadingText(arg)
               ELSE IF TextOfFirst(arg, 0, "h1") # <<>> THEN TextOfFirst(arg, 0, "h1")
               ELSE IF TextOfFirst(arg, 0, "h2") # <<>> THEN TextOfFirst(arg, 0, "h2")
               ELSE IF TextOfFirst(arg, 0, "h3") # <<>> THEN TextOfFirst(arg, 0, "h3")
               ELSE IF TextOfFirst(arg, 0, "title") # <<>> THEN TextOfFirst(arg, 0, "title")
               ELSE T_unknown
        /\ Val(ret).parsed_title # <<>>

\* The anchors of the page whose href ends in ".pdf", in any case, and those
\* of them inside the official-files cell.
PdfAnchors(doc) ==
    { e \in 1..Len(doc) :
        /\ doc[e].kind = "a"
        /\ doc[e].href # None
        /\ \E name \in {<<".", "p", "d", "f">>, <<".", "P", "D", "F">>} :
               EndsWith(Val(doc[e].href), name) }

PdfAnchorsInCell(doc) ==
    { e \in PdfAnchors(doc) :
        \E cell \in 1..Len(doc) : doc[cell].kind = "act-up-files" /\ IsUnder(doc, e, cell) }

\* C10: when the official-files cell has an anchor whose href ends in ".pdf"
\* the result is an anchor from inside the cell; only otherwise is it the
\* first anchor of the page whose href ends in ".pdf"; and the result is null
\* iff the page has no such anchor.
C10_PdfPrefersOfficialFilesCell ==
    pc = "return" =>
        /\ PdfAnchorsInCell(arg) # {} => Val(ret).anchor \in PdfAnchorsInCell(arg)
        /\ PdfAnchorsInCell(arg) = {} /\ PdfAnchors(arg) # {} =>
               /\ Val(ret).anchor \in PdfAnchors(arg)
               /\ \A e \in PdfAnchors(arg) : Val(ret).anchor <= e
        /\ Val(ret).pdf_url = None <=> PdfAnchors(arg) = {}
        /\ Val(ret).anchor # 0 => Val(ret).pdf_url = arg[Val(ret).anchor].href

\* C11: the law-number filter rejects a text iff it is at most 4 characters
\* long and composed solely of ASCII or Bengali digits; a longer text, and a
\* text with any other character, is accepted as a title.
C11_LawNumberFilter ==
    pc = "return" =>
        (Val(ret) <=> /\ Len(arg) <= 4
                      /\ \A k \in 1..Len(arg) : arg[k] \in DigitSet \cup BnDigitSet)

\* The normalized form of a title: lower-cased, punctuation replaced by
\* spaces, whitespace collapsed.
NormalizedForm(title) ==
    CollapseAndStrip([k \in 1..Len(title) |->
        IF Lower(title)[k] \in Punct THEN " " ELSE Lower(title)[k]])

StatedAmendment(title) ==
    \/ Contains(NormalizedForm(title), <<"a", "m", "e", "n", "d">>)
    \/ Contains(title, BnSongshodhon)

\* C12: a title is classified as an amendment iff its normalized form
\* contains "amend" or the raw title contains the Bengali term for amendment
\* ("Some Ordinance (Amendment) Act, 2025" is one, "Some Ordinance, 2025" is
\* not), and the record's is_amendment is this classification of the
\* extracted title.
C12_AmendmentClassification ==
    /\ pc = "return" =>
           /\ Val(ret).is_amendment <=> StatedAmendment(arg)
           /\ arg = T_some_amendment_act => Val(ret).is_amendment
           /\ arg = T_some_ordinance => ~Val(ret).is_amendment
    /\ \A k \in 1..Len(visited) : visited[k].is_amendment <=> StatedAmendment(visited[k].title)
    /\ \A k \in 1..Len(constructed) :
           constructed[k].is_amendment <=> StatedAmendment(visited[k].title)

\* The classification has returned for a title that is an amendment only by
\* its normalized form: the raw title has no "amend" in it.
C12_Witness ==
    /\ pc = "return"
    /\ arg = T_some_amendment_act
    /\ ~Contains(arg, <<"a", "m", "e", "n", "d">>)
    /\ Val(ret).is_amendment

\* The words of a text with single spaces.
RECURSIVE Words(_)
Words(text) ==
    IF text = <<>> THEN <<>>
    ELSE IF \E k \in 1..Len(text) : text[k] = " "
         THEN LET sp == CHOOSE k \in 1..Len(text) :
                            text[k] = " " /\ \A j \in 1..(k - 1) : text[j] # " "
              IN  <<SubSeq(text, 1, sp - 1)>> \o Words(SubSeq(text, sp + 1, Len(text)))
    ELSE <<text>>

\* Word k of ws is inside an occurrence of a term of the vocabulary, a word
\* or a whole phrase.
InTerm(ws, k) ==
    \E t \in 1..Len(AmendmentTerms) :
        \E j \in 1..k :
            /\ k < j + Len(Words(AmendmentTerms[t]))
            /\ j + Len(Words(AmendmentTerms[t])) - 1 <= Len(ws)
            /\ SubSeq(ws, j, j + Len(Words(AmendmentTerms[t])) - 1) = Words(AmendmentTerms[t])

\* The words of ws that are inside no term.
RECURSIVE OutsideTerms(_, _)
OutsideTerms(ws, k) ==
    IF k > Len(ws) THEN <<>>
    ELSE (IF InTerm(ws, k) THEN <<>> ELSE <<ws[k]>>) \o OutsideTerms(ws, k + 1)

\* C13: strip_amendment_terms removes every term of its vocabulary from a
\* normalized title, a multi-word phrase as a whole phrase (all of its words
\* are gone from that position: "x second amendment 2025" gives "x 2025"),
\* and the result has collapsed whitespace.
C13_StripRemovesWholePhrases ==
    pc = "return" =>
        /\ Val(ret) = Join(OutsideTerms(Words(arg), 1), Sp)
        /\ Val(ret) = CollapseAndStrip(Val(ret))

\* The detail URLs of the index.
IndexUrls == {index_entries[k][1] : k \in 1..Len(index_entries)}

FetchesOf(role, k) ==
    {a \in 1..Len(fetchLog) : fetchLog[a][1] = role /\ fetchLog[a][3] = k}

\* C15: while one primary document is processed at most one original detail
\* page is fetched, and it is the original of the primary document, never
\* the original of an original; and every fetch for one primary document
\* comes before the first fetch of the next. (Stated of the latest fetch of
\* the log, which every fetch of a run once was.)
C15_SingleResolutionPass ==
    LET n == Len(fetchLog)
        role == fetchLog[n][1]
        url == fetchLog[n][2]
        k == fetchLog[n][3]
    IN  n > 0 =>
            /\ n > 1 => fetchLog[n - 1][3] <= k
            /\ role \in {"detail", "original", "orig_full", "full"} =>
                   /\ k = Len(visited)
                   /\ k >= 1
                   /\ \A a \in 1..(n - 1) : ~(fetchLog[a][3] = k /\ fetchLog[a][1] = role)
            /\ role = "original" =>
                   /\ visited[k].is_amendment
                   /\ visited[k].original = Some(url)
            /\ role = "orig_full" =>
                   \E a \in 1..(n - 1) : fetchLog[a][3] = k /\ fetchLog[a][1] = "original"
            /\ role \in {"original", "orig_full", "full"} =>
                   \E a \in 1..(n - 1) : fetchLog[a][3] = k /\ fetchLog[a][1] = "detail"

\* A run has ended in which the original of the first document was itself an
\* amendment: its page was fetched once, nothing was fetched for its own
\* original, and the second document was fetched after it.
C15_Witness ==
    /\ pc = "done"
    /\ Len(constructed) = 2
    /\ constructed[1].original_title = Some(T_amendment)
    /\ Cardinality(FetchesOf("original", 1)) = 1
    /\ FetchesOf("detail", 2) # {}

\* C16: the original resolved for a record, through an in-page link or
\* through the Title Lookup, is never the record's own detail_url, and a
\* document's own page is never fetched again as its original.
C16_OriginalIsNeverItself ==
    /\ \A k \in 1..Len(visited) : visited[k].original # Some(visited[k].url)
    /\ \A k \in 1..Len(constructed) :
           constructed[k].original_detail_url # Some(constructed[k].detail_url)
    /\ \A k \in 1..Len(visited) :
           \A a \in FetchesOf("original", k) : fetchLog[a][2] # visited[k].url

\* C17: at the end of a successful run the file named by the
\* full_text_source of an output record holds the text extracted from the
\* page at that record's own act_details_url: no later write of the run has
\* replaced it with the text of another page.
C17_FullTextFileIsTheRecordsOwn ==
    pc = "done" =>
        \A k \in 1..Len(Val(outputs)) :
            Val(outputs)[k].full_text_source # None =>
                /\ Val(Val(outputs)[k].full_text_source) \in DOMAIN files
                /\ Some(files[Val(Val(outputs)[k].full_text_source)])
                       = Val(outputs)[k].act_details_url


====
